---- MODULE Spec2Model ----
(***************************************************************************)
(* Model of applications/rovioli/app/rovioli-app.cc: the RovioliApp        *)
(* lifecycle controller (constructor, init, run, shouldExit, saveMap,      *)
(* saveMapCallback, shutdown) and the main function that drives it,        *)
(* together with the ROS spinner threads that serve the save_map service.  *)
(***************************************************************************)
EXTENDS Integers, Sequences, FiniteSets, TLC

(* ------------------------------ bounds -------------------------------- *)
\* number of threads of rovioli_spinner_ (common::getNumHardwareThreads())
NumSpinnerThreads == 2
\* number of save_map service requests that arrive during one execution
MaxCalls == 2
\* number of messages that can be queued in the message flow at once
MaxPending == 1
\* number of numeric suffixes whose paths may already exist on disk
MaxSuffix == 2

(* --------------------------- threads ---------------------------------- *)
Main == 0
Spinners == 1..NumSpinnerThreads
Procs == {Main} \cup Spinners

(* ------------------------ paths and file system ----------------------- *)
Digit == <<"0", "1", "2", "3", "4", "5", "6", "7", "8", "9">>

\* std::to_string(size_t): decimal representation
RECURSIVE to_string(_)
to_string(n) ==
    IF n < 10 THEN Digit[n + 1]
    ELSE to_string(n \div 10) \o Digit[(n % 10) + 1]

\* FLAGS_save_map_folder + "_" + std::to_string(counter)
Suffixed(folder, n) == folder \o "_" \o to_string(n)

Kinds == {"none", "file", "dir"}

\* the requested save folders of the allocation runs, and the paths that
\* may already exist when init() runs
Folders == {"m", "m_0"}
FsPaths == Folders \cup {Suffixed(f, n) : f \in Folders, n \in 0..(MaxSuffix - 1)}

Kind(filesystem, p) ==
    IF p \in DOMAIN filesystem THEN filesystem[p] ELSE "none"

\* common::fileExists: the path is an existing regular file
fileExists(filesystem, p) == Kind(filesystem, p) = "file"

\* common::pathExists: the path is an existing directory
pathExists(filesystem, p) == Kind(filesystem, p) = "dir"

Exists(filesystem, p) == Kind(filesystem, p) # "none"

(* ------------------------------ state --------------------------------- *)
VARIABLES
    FLAGS,                     \* the gflags globals
    param,                     \* the private ROS parameters (override source)
    fs,                        \* file system: path -> kind
    pc,                        \* position of main (0) and of each spinner thread
    initialized_,              \* RovioliApp::initialized_
    save_map_folder_,          \* RovioliApp::save_map_folder_
    counter,                   \* local counter of the allocation loop
    localization_map_,         \* "null" | "loaded"
    message_flow_,             \* "null" | "running" | "shutdown"
    pending,                   \* messages queued in the message flow
    rovio_localization_node_,  \* "null" | "Unstarted" | "Running" | "Stopped"
    exhausted,                 \* RovioliNode::isDataSourceExhausted()
    rosOk,                     \* ros::ok()
    spinnerStarted,            \* rovioli_spinner_.start() has been called
    calls,                     \* save_map requests served so far
    initRet,                   \* return value of init(): "none" | "true" | "false"
    runRet,                    \* return value of run():  "none" | "true" | "false"
    ret,                       \* the last return of saveMap()
    atExit,                    \* spinner -> its persist was in flight when main left the wait loop
    stopDuring,                \* spinner -> the engine stop began during that persist
    cmdline,                   \* the flags as parsed from the command line
    mapLoad,                   \* outcome of loading the localization map
    resolvedAtInit,            \* save_map_folder_ when init() returned true
    persistPath,               \* thread -> the path it passed to the persist
    finalPersists              \* persists issued by main

vars == <<FLAGS, param, fs, pc, initialized_, save_map_folder_, counter,
          localization_map_, message_flow_, pending, rovio_localization_node_,
          exhausted, rosOk, spinnerStarted, calls, initRet, runRet, ret,
          atExit, stopDuring, cmdline, mapLoad, resolvedAtInit, persistPath,
          finalPersists>>

ctlVars == <<initialized_, save_map_folder_, counter, localization_map_,
             message_flow_, rovio_localization_node_, spinnerStarted>>
envVars == <<fs, pending, exhausted, rosOk, calls>>
histVars == <<initRet, runRet, ret, atExit, stopDuring>>
auxVars == <<cmdline, mapLoad, resolvedAtInit, persistPath, finalPersists>>

NoRet == [caller |-> -1, result |-> FALSE, persist |-> "none"]

(* ----------------------- configuration -------------------------------- *)
\* the settings the constructor reads from the private node handle
ParamNames == {"vio_localization_map_folder", "ncamera_calibration",
               "imu_parameters_maplab", "save_map_folder",
               "overwrite_existing_map", "optimize_map_to_localization_map",
               "save_map_on_shutdown"}

\* the settings of the configuration surface; the override source can hold
\* a value for any of them
ConfigSurface == ParamNames \cup {"external_imu_parameters_rovio",
                                  "map_builder_save_image_as_resources"}

BoolSettings == {"overwrite_existing_map", "optimize_map_to_localization_map",
                 "save_map_on_shutdown", "map_builder_save_image_as_resources"}

Unset == [set |-> FALSE, val |-> FALSE]
UnsetString == [set |-> FALSE, val |-> ""]
Override(v) == [set |-> TRUE, val |-> v]
NoParams ==
    [n \in ConfigSurface |-> IF n \in BoolSettings THEN Unset ELSE UnsetString]

\* slip: the parameter is never read and the flag keeps its value
RosParamDefaultOnly(name, default) == default

\* nh_private_.param(name, variable, default): the parameter when it is set,
\* the default otherwise
RosParam(name, default) ==
    IF param[name].set THEN param[name].val ELSE default

\* the gflags defaults (lines 20-43; resources are off by default)
DefaultFlags ==
    [vio_localization_map_folder      |-> "",
     ncamera_calibration              |-> "ncamera.yaml",
     imu_parameters_maplab            |-> "imu-maplab.yaml",
     external_imu_parameters_rovio    |-> "",
     save_map_folder                  |-> "",
     overwrite_existing_map           |-> FALSE,
     optimize_map_to_localization_map |-> FALSE,
     save_map_on_shutdown             |-> TRUE,
     map_builder_save_image_as_resources |-> FALSE]

\* command lines that set the flags of saving
SaveFlagValues ==
    {[DefaultFlags EXCEPT !.save_map_folder = folder,
                          !.overwrite_existing_map = overwrite,
                          !.save_map_on_shutdown = onShutdown,
                          !.map_builder_save_image_as_resources = resources] :
        folder \in {"", "m"}, overwrite \in BOOLEAN, onShutdown \in BOOLEAN,
        resources \in BOOLEAN}

\* command lines that set the flags of loading
LoadFlagValues ==
    {[DefaultFlags EXCEPT !.vio_localization_map_folder = map,
                          !.external_imu_parameters_rovio = imu] :
        map \in {"", "loc"}, imu \in {"", "imu-rovio.yaml"}}

\* the command lines of the runs explored
FlagValues == SaveFlagValues \cup LoadFlagValues

\* the private ROS parameters of the runs explored
ParamValues ==
    {NoParams,
     [NoParams EXCEPT !["save_map_folder"] = Override(""),
                      !["save_map_on_shutdown"] = Override(FALSE)]}

\* the file systems of the runs explored
NoFiles == [p \in FsPaths |-> "none"]
FsValues ==
    {NoFiles,
     [NoFiles EXCEPT !["m"] = "dir"],
     [NoFiles EXCEPT !["m"] = "file", !["m_0"] = "dir"]}

(* ------------------------------- Init --------------------------------- *)
\* the state of main before `RovioliApp rovioli_app(nh, nh_private)`
InitCommon ==
    /\ initialized_ = FALSE
    /\ save_map_folder_ = ""
    /\ counter = 0
    /\ localization_map_ = "null"
    /\ message_flow_ = "null"
    /\ pending = 0
    /\ rovio_localization_node_ = "null"
    /\ exhausted = FALSE
    /\ rosOk = TRUE
    /\ spinnerStarted = FALSE
    /\ calls = 0
    /\ initRet = "none"
    /\ runRet = "none"
    /\ ret = NoRet
    /\ atExit = [t \in Spinners |-> FALSE]
    /\ stopDuring = [t \in Spinners |-> FALSE]
    /\ cmdline = FLAGS
    /\ mapLoad = "none"
    /\ resolvedAtInit = ""
    /\ persistPath = [p \in Procs |-> ""]
    /\ finalPersists = 0

Init ==
    /\ FLAGS \in FlagValues
    /\ param \in ParamValues
    /\ fs \in FsValues
    /\ pc = [p \in Procs |-> IF p = Main THEN "construct" ELSE "idle"]
    /\ InitCommon

(* ------------------------- RovioliApp::RovioliApp --------------------- *)
Construct ==
    /\ pc[Main] = "construct"
    /\ FLAGS' = [FLAGS EXCEPT
         !.vio_localization_map_folder =
             RosParam("vio_localization_map_folder", @),
         !.ncamera_calibration = RosParam("ncamera_calibration", @),
         !.imu_parameters_maplab = RosParam("imu_parameters_maplab", @),
         !.save_map_folder = RosParam("save_map_folder", @),
         !.overwrite_existing_map = RosParam("overwrite_existing_map", @),
         !.optimize_map_to_localization_map =
             RosParam("optimize_map_to_localization_map", @),
         !.save_map_on_shutdown = RosParam("save_map_on_shutdown", @)]
    /\ pc' = [pc EXCEPT ![Main] = "init_map"]
    /\ UNCHANGED auxVars
    /\ UNCHANGED <<param, ctlVars, envVars, histVars>>

(* --------------------------- RovioliApp::init ------------------------- *)
\* outcomes of loading the localization map: the summary map loads; it does
\* not but the full VI map loads and yields landmarks; the full map loads but
\* the derived summary is empty; neither loads
MapLoadOutcomes == {"summary", "full", "full_empty", "fail"}

\* slip: the two CHECKs of the fallback are missing and init() goes on
InitLoadMapUnchecked ==
    /\ pc[Main] = "init_map"
    /\ IF FLAGS.vio_localization_map_folder = ""
         THEN UNCHANGED <<localization_map_, mapLoad>>
         ELSE \E outcome \in MapLoadOutcomes :
              /\ mapLoad' = outcome
              /\ localization_map_' =
                    IF outcome \in {"summary", "full"} THEN "loaded"
                                                        ELSE "empty"
    /\ pc' = [pc EXCEPT ![Main] = "init_calib"]
    /\ UNCHANGED <<cmdline, resolvedAtInit, persistPath, finalPersists>>
    /\ UNCHANGED <<FLAGS, param, initialized_, save_map_folder_, counter,
                   message_flow_, rovio_localization_node_, spinnerStarted,
                   envVars, histVars>>

InitLoadMap ==
    /\ pc[Main] = "init_map"
    /\ IF FLAGS.vio_localization_map_folder = ""
         THEN /\ pc' = [pc EXCEPT ![Main] = "init_calib"]
              /\ UNCHANGED <<localization_map_, mapLoad>>
         ELSE \E outcome \in MapLoadOutcomes :
              /\ mapLoad' = outcome
              /\ IF outcome \in {"summary", "full"}
                   THEN /\ localization_map_' = "loaded"
                        /\ pc' = [pc EXCEPT ![Main] = "init_calib"]
                   ELSE \* CHECK(loadMapFromFolder) or CHECK_GT(cols, 0) fails
                        /\ localization_map_' = "empty"
                        /\ pc' = [pc EXCEPT ![Main] = "aborted"]
    /\ UNCHANGED <<cmdline, resolvedAtInit, persistPath, finalPersists>>
    /\ UNCHANGED <<FLAGS, param, initialized_, save_map_folder_, counter,
                   message_flow_, rovio_localization_node_, spinnerStarted,
                   envVars, histVars>>

InitLoadCalibration ==
    /\ pc[Main] = "init_calib"
    /\ \E cameraOk, imuOk, imuValid, rovioOk, rovioValid \in BOOLEAN :
         LET externalOk ==
               FLAGS.external_imu_parameters_rovio = ""
                  \/ (rovioOk /\ rovioValid)
         IN  IF cameraOk /\ imuOk /\ imuValid /\ externalOk
               THEN pc' = [pc EXCEPT ![Main] = "init_resources"]
               ELSE pc' = [pc EXCEPT ![Main] = "aborted"]
    /\ UNCHANGED auxVars
    /\ UNCHANGED <<FLAGS, param, ctlVars, envVars, histVars>>

\* slip: the resource check is left out and init() goes on
InitCheckResourcesIgnored ==
    /\ pc[Main] = "init_resources"
    /\ pc' = [pc EXCEPT ![Main] = "init_alloc"]
    /\ UNCHANGED auxVars
    /\ UNCHANGED <<FLAGS, param, ctlVars, envVars, histVars>>

InitCheckResources ==
    /\ pc[Main] = "init_resources"
    /\ IF FLAGS.map_builder_save_image_as_resources
            /\ FLAGS.save_map_folder = ""
         THEN /\ initRet' = "false"
              /\ pc' = [pc EXCEPT ![Main] = "after_init"]
         ELSE /\ initRet' = initRet
              /\ pc' = [pc EXCEPT ![Main] = "init_alloc"]
    /\ UNCHANGED auxVars
    /\ UNCHANGED <<FLAGS, param, ctlVars, envVars, runRet, ret, atExit,
                   stopDuring>>

InitAllocBegin ==
    /\ pc[Main] = "init_alloc"
    /\ save_map_folder_' = FLAGS.save_map_folder
    /\ counter' = 0
    /\ pc' = [pc EXCEPT ![Main] =
                IF FLAGS.save_map_folder # "" THEN "init_alloc_loop"
                                              ELSE "init_construct"]
    /\ UNCHANGED auxVars
    /\ UNCHANGED <<FLAGS, param, initialized_, localization_map_,
                   message_flow_, rovio_localization_node_, spinnerStarted,
                   envVars, histVars>>

\* slip: the directory test is left out of the loop condition
AllocCollidesFilesOnly(filesystem, p, overwrite) ==
    fileExists(filesystem, p)

\* slip: the loop condition ignores FLAGS_overwrite_existing_map
AllocCollidesAnyEntry(filesystem, p, overwrite) ==
    fileExists(filesystem, p) \/ pathExists(filesystem, p)

\* the condition of the while loop
AllocCollides(filesystem, p, overwrite) ==
    fileExists(filesystem, p) \/ (~overwrite /\ pathExists(filesystem, p))

InitAllocLoop ==
    /\ pc[Main] = "init_alloc_loop"
    /\ AllocCollides(fs, save_map_folder_, FLAGS.overwrite_existing_map)
    /\ save_map_folder_' = Suffixed(FLAGS.save_map_folder, counter)
    /\ counter' = counter + 1
    /\ UNCHANGED auxVars
    /\ UNCHANGED <<FLAGS, param, pc, initialized_, localization_map_,
                   message_flow_, rovio_localization_node_, spinnerStarted,
                   envVars, histVars>>

InitAllocExit ==
    /\ pc[Main] = "init_alloc_loop"
    /\ ~AllocCollides(fs, save_map_folder_, FLAGS.overwrite_existing_map)
    /\ pc' = [pc EXCEPT ![Main] = "init_construct"]
    /\ UNCHANGED auxVars
    /\ UNCHANGED <<FLAGS, param, ctlVars, envVars, histVars>>

InitConstruct ==
    /\ pc[Main] = "init_construct"
    /\ message_flow_' = "running"
    /\ rovio_localization_node_' = "Unstarted"
    /\ initialized_' = TRUE
    /\ initRet' = "true"
    /\ resolvedAtInit' = save_map_folder_
    /\ pc' = [pc EXCEPT ![Main] = "after_init"]
    /\ UNCHANGED <<cmdline, mapLoad, persistPath, finalPersists>>
    /\ UNCHANGED <<FLAGS, param, save_map_folder_, counter, localization_map_,
                   spinnerStarted, envVars, runRet, ret, atExit, stopDuring>>

(* ------------------------------- main --------------------------------- *)
Alive == pc[Main] # "aborted"

\* if (!rovioli_app.init()) { ROS_FATAL(...); ros::shutdown(); }
MainAfterInit ==
    /\ pc[Main] = "after_init"
    /\ rosOk' = IF initRet = "false" THEN FALSE ELSE rosOk
    /\ pc' = [pc EXCEPT ![Main] = "run"]
    /\ UNCHANGED auxVars
    /\ UNCHANGED <<FLAGS, param, ctlVars, fs, pending, exhausted, calls,
                   histVars>>

(* --------------------------- RovioliApp::run -------------------------- *)
\* slip: run() does not test initialized_
RunCheckUnguarded ==
    /\ pc[Main] = "run"
    /\ pc' = [pc EXCEPT ![Main] = "run_spinner"]
    /\ UNCHANGED auxVars
    /\ UNCHANGED <<FLAGS, param, ctlVars, envVars, histVars>>

\* if (!initialized_) return false;  and, in main, the handling of that
\* result: if (!rovioli_app.run()) { ROS_FATAL(...); ros::shutdown(); }
RunCheck ==
    /\ pc[Main] = "run"
    /\ IF ~initialized_
         THEN /\ runRet' = "false"
              /\ rosOk' = FALSE
              /\ pc' = [pc EXCEPT ![Main] = "should_exit"]
         ELSE /\ UNCHANGED <<runRet, rosOk>>
              /\ pc' = [pc EXCEPT ![Main] = "run_spinner"]
    /\ UNCHANGED auxVars
    /\ UNCHANGED <<FLAGS, param, ctlVars, fs, pending, exhausted, calls,
                   initRet, ret, atExit, stopDuring>>

\* rovioli_spinner_.start()
RunStartSpinner ==
    /\ pc[Main] = "run_spinner"
    /\ spinnerStarted' = TRUE
    /\ pc' = [pc EXCEPT ![Main] = "run_node"]
    /\ UNCHANGED auxVars
    /\ UNCHANGED <<FLAGS, param, initialized_, save_map_folder_, counter,
                   localization_map_, message_flow_, rovio_localization_node_,
                   envVars, histVars>>

\* rovio_localization_node_->start(); return true;
RunStartNode ==
    /\ pc[Main] = "run_node"
    /\ Alive
    /\ rovio_localization_node_' = "Running"
    /\ runRet' = "true"
    /\ pc' = [pc EXCEPT ![Main] = "should_exit"]
    /\ UNCHANGED auxVars
    /\ UNCHANGED <<FLAGS, param, initialized_, save_map_folder_, counter,
                   localization_map_, message_flow_, spinnerStarted, envVars,
                   initRet, ret, atExit, stopDuring>>

(* ------------------------ RovioliApp::shouldExit ---------------------- *)
\* slip: shouldExit() returns the flag without its CHECK
ShouldExitUnchecked ==
    /\ pc[Main] = "should_exit"
    /\ pc' = [pc EXCEPT ![Main] = "wait_check"]
    /\ UNCHANGED auxVars
    /\ UNCHANGED <<FLAGS, param, ctlVars, envVars, histVars>>

\* CHECK(rovio_localization_node_) aborts the process on a null handle
ShouldExit ==
    /\ pc[Main] = "should_exit"
    /\ pc' = [pc EXCEPT ![Main] =
                IF rovio_localization_node_ = "null" THEN "aborted"
                                                     ELSE "wait_check"]
    /\ UNCHANGED auxVars
    /\ UNCHANGED <<FLAGS, param, ctlVars, envVars, histVars>>

(* ---------------------------- the wait loop --------------------------- *)
\* slip: the loop condition tests the exhaustion flag the wrong way round
WaitLoopCheckInverted ==
    /\ pc[Main] = "wait_check"
    /\ IF rosOk /\ exhausted
         THEN /\ pc' = [pc EXCEPT ![Main] = "wait_sleep"]
              /\ UNCHANGED atExit
         ELSE /\ pc' = [pc EXCEPT ![Main] = "shutdown"]
              /\ atExit' = [t \in Spinners |-> pc[t] = "persist"]
    /\ UNCHANGED auxVars
    /\ UNCHANGED <<FLAGS, param, ctlVars, envVars, initRet, runRet, ret,
                   stopDuring>>

\* slip: the loop reads the flag with exchange(false) and so clears it
WaitLoopCheckConsuming ==
    /\ pc[Main] = "wait_check"
    /\ IF rosOk /\ ~exhausted
         THEN /\ pc' = [pc EXCEPT ![Main] = "wait_sleep"]
              /\ UNCHANGED atExit
         ELSE /\ pc' = [pc EXCEPT ![Main] = "shutdown"]
              /\ atExit' = [t \in Spinners |-> pc[t] = "persist"]
    /\ exhausted' = FALSE
    /\ UNCHANGED auxVars
    /\ UNCHANGED <<FLAGS, param, ctlVars, fs, pending, rosOk, calls, initRet,
                   runRet, ret, stopDuring>>

\* slip: the loop condition tests only the exhaustion flag, not ros::ok()
WaitLoopCheckIgnoringRosOk ==
    /\ pc[Main] = "wait_check"
    /\ IF ~exhausted
         THEN /\ pc' = [pc EXCEPT ![Main] = "wait_sleep"]
              /\ UNCHANGED atExit
         ELSE /\ pc' = [pc EXCEPT ![Main] = "shutdown"]
              /\ atExit' = [t \in Spinners |-> pc[t] = "persist"]
    /\ UNCHANGED auxVars
    /\ UNCHANGED <<FLAGS, param, ctlVars, envVars, initRet, runRet, ret,
                   stopDuring>>

\* while (ros::ok() && !end_of_days_signal_received.load())
WaitLoopCheck ==
    /\ pc[Main] = "wait_check"
    /\ IF rosOk /\ ~exhausted
         THEN /\ pc' = [pc EXCEPT ![Main] = "wait_sleep"]
              /\ UNCHANGED atExit
         ELSE /\ pc' = [pc EXCEPT ![Main] = "shutdown"]
              /\ atExit' = [t \in Spinners |-> pc[t] = "persist"]
    /\ UNCHANGED auxVars
    /\ UNCHANGED <<FLAGS, param, ctlVars, envVars, initRet, runRet, ret,
                   stopDuring>>

\* std::this_thread::sleep_for(std::chrono::seconds(1))
WaitLoopSleep ==
    /\ pc[Main] = "wait_sleep"
    /\ pc' = [pc EXCEPT ![Main] = "wait_check"]
    /\ UNCHANGED auxVars
    /\ UNCHANGED <<FLAGS, param, ctlVars, envVars, histVars>>

(* ------------------------- RovioliApp::shutdown ----------------------- *)
\* the call of rovio_localization_node_->shutdown()
ShutdownNodeBegin ==
    /\ pc[Main] = "shutdown"
    /\ pc' = [pc EXCEPT ![Main] = "node_shutdown"]
    /\ stopDuring' = [t \in Spinners |-> atExit[t] /\ pc[t] = "persist"]
    /\ UNCHANGED auxVars
    /\ UNCHANGED <<FLAGS, param, ctlVars, envVars, initRet, runRet, ret,
                   atExit>>

\* rovio_localization_node_->shutdown() returns: the engine is stopped
ShutdownNodeReturn ==
    /\ pc[Main] = "node_shutdown"
    /\ rovio_localization_node_' = "Stopped"
    /\ pc' = [pc EXCEPT ![Main] = "flow_shutdown"]
    /\ UNCHANGED auxVars
    /\ UNCHANGED <<FLAGS, param, initialized_, save_map_folder_, counter,
                   localization_map_, message_flow_, spinnerStarted, envVars,
                   histVars>>

\* message_flow_->shutdown()
ShutdownMessageFlow ==
    /\ pc[Main] = "flow_shutdown"
    /\ message_flow_' = "shutdown"
    /\ pc' = [pc EXCEPT ![Main] = "flow_wait"]
    /\ UNCHANGED auxVars
    /\ UNCHANGED <<FLAGS, param, initialized_, save_map_folder_, counter,
                   localization_map_, rovio_localization_node_,
                   spinnerStarted, envVars, histVars>>

\* slip: shutdown() returns without waiting for the message flow to drain
ShutdownWithoutWaiting ==
    /\ pc[Main] = "flow_wait"
    /\ pc' = [pc EXCEPT ![Main] = "final_check"]
    /\ UNCHANGED auxVars
    /\ UNCHANGED <<FLAGS, param, ctlVars, envVars, histVars>>

\* message_flow_->waitUntilIdle() blocks until no message is queued
ShutdownWaitUntilIdle ==
    /\ pc[Main] = "flow_wait"
    /\ pending = 0
    /\ pc' = [pc EXCEPT ![Main] = "final_check"]
    /\ UNCHANGED auxVars
    /\ UNCHANGED <<FLAGS, param, ctlVars, envVars, histVars>>

\* slip: main saves on exit whatever FLAGS_save_map_on_shutdown says
FinalSaveAlways ==
    /\ pc[Main] = "final_check"
    /\ pc' = [pc EXCEPT ![Main] = "saveMap"]
    /\ UNCHANGED auxVars
    /\ UNCHANGED <<FLAGS, param, ctlVars, envVars, histVars>>

\* if (FLAGS_save_map_on_shutdown) { rovioli_app.saveMap(); }  return 0;
FinalSaveCheck ==
    /\ pc[Main] = "final_check"
    /\ pc' = [pc EXCEPT ![Main] =
                IF FLAGS.save_map_on_shutdown THEN "saveMap" ELSE "done"]
    /\ UNCHANGED auxVars
    /\ UNCHANGED <<FLAGS, param, ctlVars, envVars, histVars>>

(* -------------------------- RovioliApp::saveMap ----------------------- *)
\* where the caller continues after saveMap() returns
AfterSave(self) == IF self = Main THEN "done" ELSE "idle"

\* slip: saveMap() calls the engine without testing save_map_folder_
SaveMapEnterUnchecked(self) ==
    /\ pc[self] = "saveMap"
    /\ Alive
    /\ pc' = IF rovio_localization_node_ = "null"
                THEN [pc EXCEPT ![Main] = "aborted"]
                ELSE [pc EXCEPT ![self] = "persist"]
    /\ persistPath' = [persistPath EXCEPT ![self] = save_map_folder_]
    /\ finalPersists' = IF self = Main THEN finalPersists + 1
                                       ELSE finalPersists
    /\ UNCHANGED <<cmdline, mapLoad, resolvedAtInit>>
    /\ UNCHANGED <<FLAGS, param, ctlVars, envVars, histVars>>

\* slip: saveMap() looks for a free folder again on every call
SaveMapEnterReallocating(self) ==
    /\ pc[self] = "saveMap"
    /\ Alive
    /\ IF save_map_folder_ # ""
         THEN /\ pc' = IF rovio_localization_node_ = "null"
                         THEN [pc EXCEPT ![Main] = "aborted"]
                         ELSE [pc EXCEPT ![self] = "persist"]
              /\ persistPath' = [persistPath EXCEPT ![self] =
                    IF AllocCollides(fs, save_map_folder_,
                                     FLAGS.overwrite_existing_map)
                      THEN Suffixed(FLAGS.save_map_folder, counter)
                      ELSE save_map_folder_]
              /\ finalPersists' = IF self = Main THEN finalPersists + 1
                                                 ELSE finalPersists
              /\ UNCHANGED ret
         ELSE /\ pc' = [pc EXCEPT ![self] = AfterSave(self)]
              /\ ret' = [caller |-> self, result |-> FALSE,
                         persist |-> "none"]
              /\ UNCHANGED <<persistPath, finalPersists>>
    /\ UNCHANGED <<cmdline, mapLoad, resolvedAtInit>>
    /\ UNCHANGED <<FLAGS, param, ctlVars, envVars, initRet, runRet, atExit,
                   stopDuring>>

\* if (!save_map_folder_.empty()) { <engine call> } else { return false; }
SaveMapEnter(self) ==
    /\ pc[self] = "saveMap"
    /\ Alive
    /\ IF save_map_folder_ # ""
         THEN /\ pc' = IF rovio_localization_node_ = "null"
                         THEN [pc EXCEPT ![Main] = "aborted"]
                         ELSE [pc EXCEPT ![self] = "persist"]
              /\ persistPath' = [persistPath EXCEPT ![self] = save_map_folder_]
              /\ finalPersists' = IF self = Main THEN finalPersists + 1
                                                 ELSE finalPersists
              /\ UNCHANGED ret
         ELSE /\ pc' = [pc EXCEPT ![self] = AfterSave(self)]
              /\ ret' = [caller |-> self, result |-> FALSE,
                         persist |-> "none"]
              /\ UNCHANGED <<persistPath, finalPersists>>
    /\ UNCHANGED <<cmdline, mapLoad, resolvedAtInit>>
    /\ UNCHANGED <<FLAGS, param, ctlVars, envVars, initRet, runRet, atExit,
                   stopDuring>>

\* saveMapAndOptionallyOptimize(...) returns (it has no result); return true;
SaveMapPersistReturn(self) ==
    /\ pc[self] = "persist"
    /\ Alive
    /\ \E outcome \in {"ok", "failed"} :
         /\ fs' = IF outcome = "ok"
                    THEN (persistPath[self] :> "dir") @@ fs
                    ELSE fs
         /\ ret' = [caller |-> self, result |-> TRUE, persist |-> outcome]
    /\ pc' = [pc EXCEPT ![self] = AfterSave(self)]
    /\ persistPath' = [persistPath EXCEPT ![self] = ""]
    /\ atExit' = [t \in Spinners |-> t # self /\ atExit[t]]
    /\ stopDuring' = [t \in Spinners |-> t # self /\ stopDuring[t]]
    /\ UNCHANGED <<cmdline, mapLoad, resolvedAtInit, finalPersists>>
    /\ UNCHANGED <<FLAGS, param, ctlVars, pending, exhausted, rosOk, calls,
                   initRet, runRet>>

(* ---------------------- RovioliApp::saveMapCallback ------------------- *)
\* slip: the service is served from its advertisement in the constructor
\* on, not from rovioli_spinner_.start() on
ServeCallbackBeforeRun(t) ==
    /\ pc[t] = "idle"
    /\ pc[Main] \notin {"construct", "done", "aborted"}
    /\ rosOk
    /\ calls < MaxCalls
    /\ calls' = calls + 1
    /\ pc' = [pc EXCEPT ![t] = "saveMap"]
    /\ UNCHANGED auxVars
    /\ UNCHANGED <<FLAGS, param, ctlVars, fs, pending, exhausted, rosOk,
                   histVars>>

\* a spinner thread takes a save_map request from the callback queue and
\* calls saveMapCallback, which calls saveMap()
ServeCallback(t) ==
    /\ pc[t] = "idle"
    /\ pc[Main] \notin {"done", "aborted"}
    /\ spinnerStarted
    /\ rosOk
    /\ calls < MaxCalls
    /\ calls' = calls + 1
    /\ pc' = [pc EXCEPT ![t] = "saveMap"]
    /\ UNCHANGED auxVars
    /\ UNCHANGED <<FLAGS, param, ctlVars, fs, pending, exhausted, rosOk,
                   histVars>>

(* --------------------------- environment ------------------------------ *)
\* SIGINT or an external ROS shutdown request: ros::ok() becomes false
ExternalStop ==
    /\ pc[Main] \notin {"done", "aborted"}
    /\ rosOk
    /\ rosOk' = FALSE
    /\ UNCHANGED auxVars
    /\ UNCHANGED <<FLAGS, param, ctlVars, fs, pending, exhausted, calls, pc,
                   histVars>>

\* the data source of the running engine runs out of data
DataSourceExhausted ==
    /\ Alive
    /\ rovio_localization_node_ = "Running"
    /\ ~exhausted
    /\ exhausted' = TRUE
    /\ UNCHANGED auxVars
    /\ UNCHANGED <<FLAGS, param, ctlVars, fs, pending, rosOk, calls, pc,
                   histVars>>

\* the running engine publishes a message into the message flow
Publish ==
    /\ Alive
    /\ rovio_localization_node_ = "Running"
    /\ message_flow_ = "running"
    /\ pending < MaxPending
    /\ pending' = pending + 1
    /\ UNCHANGED auxVars
    /\ UNCHANGED <<FLAGS, param, ctlVars, fs, exhausted, rosOk, calls, pc,
                   histVars>>

\* a worker of the message flow delivers a queued message
Deliver ==
    /\ Alive
    /\ pending > 0
    /\ pending' = pending - 1
    /\ UNCHANGED auxVars
    /\ UNCHANGED <<FLAGS, param, ctlVars, fs, exhausted, rosOk, calls, pc,
                   histVars>>

(* ------------------------------- Next --------------------------------- *)
Next ==
    \/ Construct
    \/ InitLoadMap
    \/ InitLoadCalibration
    \/ InitCheckResources
    \/ InitAllocBegin
    \/ InitAllocLoop
    \/ InitAllocExit
    \/ InitConstruct
    \/ MainAfterInit
    \/ RunCheck
    \/ RunStartSpinner
    \/ RunStartNode
    \/ ShouldExit
    \/ WaitLoopCheck
    \/ WaitLoopSleep
    \/ ShutdownNodeBegin
    \/ ShutdownNodeReturn
    \/ ShutdownMessageFlow
    \/ ShutdownWaitUntilIdle
    \/ FinalSaveCheck
    \/ \E self \in Procs : SaveMapEnter(self)
    \/ \E self \in Procs : SaveMapPersistReturn(self)
    \/ \E t \in Spinners : ServeCallback(t)
    \/ ExternalStop
    \/ DataSourceExhausted
    \/ Publish
    \/ Deliver

Spec == Init /\ [][Next]_vars

(* ------------------------- fair scheduling ---------------------------- *)
\* the steps of the main thread
MainStep ==
    \/ Construct
    \/ InitLoadMap
    \/ InitLoadCalibration
    \/ InitCheckResources
    \/ InitAllocBegin
    \/ InitAllocLoop
    \/ InitAllocExit
    \/ InitConstruct
    \/ MainAfterInit
    \/ RunCheck
    \/ RunStartSpinner
    \/ RunStartNode
    \/ ShouldExit
    \/ WaitLoopCheck
    \/ WaitLoopSleep
    \/ ShutdownNodeBegin
    \/ ShutdownNodeReturn
    \/ ShutdownMessageFlow
    \/ ShutdownWaitUntilIdle
    \/ FinalSaveCheck
    \/ SaveMapEnter(Main)
    \/ SaveMapPersistReturn(Main)

\* the main thread is scheduled and every call it makes returns (engine
\* stop, persist); the message flow keeps delivering what is queued
LiveFlagValues ==
    {[DefaultFlags EXCEPT !.save_map_folder = folder,
                          !.save_map_on_shutdown = onShutdown] :
        folder \in {"", "m"}, onShutdown \in BOOLEAN}

InitLive ==
    /\ FLAGS \in LiveFlagValues
    /\ param = NoParams
    /\ fs = [NoFiles EXCEPT !["m"] = "dir"]
    /\ pc = [p \in Procs |-> IF p = Main THEN "construct" ELSE "idle"]
    /\ InitCommon

SpecLive ==
    InitLive /\ [][Next]_vars /\ WF_vars(MainStep) /\ WF_vars(Deliver)

(* ------------- the constructor's configuration on its own ------------- *)
\* a command line that sets every flag of the configuration surface
OtherFlags ==
    [vio_localization_map_folder      |-> "loc",
     ncamera_calibration              |-> "cam.yaml",
     imu_parameters_maplab            |-> "imu.yaml",
     external_imu_parameters_rovio    |-> "imu-rovio.yaml",
     save_map_folder                  |-> "m",
     overwrite_existing_map           |-> TRUE,
     optimize_map_to_localization_map |-> TRUE,
     save_map_on_shutdown             |-> FALSE,
     map_builder_save_image_as_resources |-> TRUE]

\* what the override source may hold for a setting
StringParams == {UnsetString, Override(""), Override("/ros")}
BoolParams == {Unset, Override(FALSE), Override(TRUE)}

ConfigParamValues ==
    [vio_localization_map_folder      : StringParams,
     ncamera_calibration              : StringParams,
     imu_parameters_maplab            : StringParams,
     external_imu_parameters_rovio    : StringParams,
     save_map_folder                  : StringParams,
     overwrite_existing_map           : BoolParams,
     optimize_map_to_localization_map : BoolParams,
     save_map_on_shutdown             : BoolParams,
     map_builder_save_image_as_resources : BoolParams]

InitConfig ==
    /\ FLAGS \in {DefaultFlags, OtherFlags}
    /\ param \in ConfigParamValues
    /\ fs = NoFiles
    /\ pc = [p \in Procs |-> IF p = Main THEN "construct" ELSE "idle"]
    /\ InitCommon

NextConfig == Construct

SpecConfig == InitConfig /\ [][NextConfig]_vars

(* -------- the save folder allocation of init() on its own ------------- *)
\* init() at its resource check (line 190), for every requested folder,
\* overwrite setting and content of the file system
AllocFlagValues ==
    {[DefaultFlags EXCEPT !.save_map_folder = folder,
                          !.overwrite_existing_map = overwrite,
                          !.map_builder_save_image_as_resources = resources] :
        folder \in {""} \cup Folders, overwrite \in BOOLEAN,
        resources \in BOOLEAN}

InitAlloc ==
    /\ FLAGS \in AllocFlagValues
    /\ param = NoParams
    /\ fs \in [FsPaths -> Kinds]
    /\ pc = [p \in Procs |-> IF p = Main THEN "init_resources" ELSE "idle"]
    /\ InitCommon

NextAlloc ==
    \/ InitCheckResources
    \/ InitAllocBegin
    \/ InitAllocLoop
    \/ InitAllocExit

SpecAlloc == InitAlloc /\ [][NextAlloc]_vars

(* ============================== claims ================================ *)
Persisting == {self \in Procs : pc[self] = "persist"}

\* C1: at most one persist operation (the engine call of saveMap) is
\* executing in any reachable state, whichever thread issued it.
C1_MutualExclusion == Cardinality(Persisting) <= 1

\* C2: a persist of an external-trigger save that was in flight when main
\* left the wait loop is not torn down: either the engine stop did not begin
\* while it was in flight, or it has completed when main has returned.
C2_InFlightSaveCompletes ==
    \A t \in Spinners :
        ~(pc[Main] = "done" /\ pc[t] = "persist" /\ atExit[t] /\ stopDuring[t])

\* C3: shutdown() stops the engine first, flushes the message flow only
\* after the engine stop has returned, and has returned only when the engine
\* is Stopped, the message flow is shut down and no message is queued.
ShutdownReturned == pc[Main] \in {"final_check", "saveMap", "persist", "done"}
C3_StopThenFlush ==
    /\ message_flow_ = "shutdown" => rovio_localization_node_ = "Stopped"
    /\ pc[Main] = "flow_wait" => message_flow_ = "shutdown"
    /\ ShutdownReturned =>
          /\ rovio_localization_node_ = "Stopped"
          /\ message_flow_ = "shutdown"
          /\ pending = 0
C3_Witness ==
    /\ pc[Main] = "final_check"
    /\ rovio_localization_node_ = "Stopped"
    /\ \E t \in Spinners : pc[t] = "persist"

AllocDone == pc[Main] = "init_construct"
Requested == FLAGS.save_map_folder

\* C4: when the requested folder p is non-empty and exists (file or
\* directory) and overwriting is not allowed, init() resolves p_n for the
\* smallest n >= 0 such that p_n does not exist; the result is not p and
\* does not exist.
C4_SmallestFreeSuffix ==
    (AllocDone /\ Requested # "" /\ Exists(fs, Requested)
       /\ ~FLAGS.overwrite_existing_map)
    => /\ \E n \in 0..MaxSuffix :
            /\ save_map_folder_ = Suffixed(Requested, n)
            /\ \A k \in 0..(n - 1) : Exists(fs, Suffixed(Requested, k))
       /\ ~Exists(fs, save_map_folder_)
       /\ save_map_folder_ # Requested
C4_Witness ==
    /\ AllocDone
    /\ ~FLAGS.overwrite_existing_map
    /\ Requested = "m"
    /\ fs["m"] = "file" /\ fs["m_0"] = "dir" /\ fs["m_1"] = "none"
    /\ save_map_folder_ = "m_1"

C6_NoSaveWithoutFolder ==
    save_map_folder_ = ""
    => /\ Persisting = {}
       /\ ret.caller # -1 => (~ret.result /\ ret.persist = "none")
C6_Witness ==
    /\ save_map_folder_ = ""
    /\ ret.caller \in Spinners
    /\ ~ret.result
    /\ initialized_

\* C7: saveMap() returns true only when the persist operation succeeded.
C7_ResultReportsPersist ==
    (ret.caller # -1 /\ ret.result) => ret.persist = "ok"

\* C8: once init() is past its resource check with auxiliary resources
\* requested and no save folder, it has returned false, initialized_ is
\* false, and neither the message flow nor the engine exists.
PastResourceCheck ==
    /\ pc[Main] \notin {"construct", "init_map", "init_calib", "init_resources"}
    /\ ~(pc[Main] = "aborted" /\ initRet = "none")
C8_ResourcesNeedFolder ==
    (PastResourceCheck /\ FLAGS.map_builder_save_image_as_resources
       /\ FLAGS.save_map_folder = "")
    => /\ initRet = "false"
       /\ ~initialized_
       /\ message_flow_ = "null"
       /\ rovio_localization_node_ = "null"
C8_Witness ==
    /\ pc[Main] = "after_init"
    /\ initRet = "false"
    /\ FLAGS.map_builder_save_image_as_resources

\* C9: unless init() returned true, run() returns false, the spinner and the
\* engine are never started, and the engine never reaches Running.
RunReturned == pc[Main] \notin
    {"construct", "init_map", "init_calib", "init_resources", "init_alloc",
     "init_alloc_loop", "init_construct", "after_init", "run", "run_spinner",
     "run_node"}
C9_NoRunWithoutInit ==
    initRet # "true"
    => /\ ~spinnerStarted
       /\ rovio_localization_node_ # "Running"
       /\ runRet # "true"
       /\ (RunReturned /\ initRet = "false") => runRet = "false"
C9_Witness ==
    /\ initRet = "false"
    /\ runRet = "false"
    /\ pc[Main] = "should_exit"

\* C10: after init() has returned false the host process does not hit a
\* fatal assertion or abort.
C10_NoAbortAfterRejectedInit ==
    initRet = "false" => pc[Main] # "aborted"
\* C11: the save path resolved by init() never changes afterwards, and
\* every persist, from any thread and however often, is passed that path,
\* also after an earlier save has changed the file system.
C11_SavePathFixed ==
    initRet = "true"
    => /\ save_map_folder_ = resolvedAtInit
       /\ \A self \in Persisting : persistPath[self] = resolvedAtInit
C11_Witness ==
    /\ ret.persist = "ok"
    /\ ~FLAGS.overwrite_existing_map
    /\ pathExists(fs, resolvedAtInit)
    /\ \E self \in Persisting : persistPath[self] = resolvedAtInit
\* main is inside the persist of the save on exit only once shutdown() has
\* returned: the engine is stopped and the message flow is flushed
FinalPersistAfterShutdown ==
    pc[Main] = "persist"
    => /\ rovio_localization_node_ = "Stopped"
       /\ message_flow_ = "shutdown"
       /\ pending = 0

\* C12 as stated: main issues the persist of the save on exit only after
\* shutdown() has returned, at most once, and if and only if
\* save_map_on_shutdown is true.
C12_FinalSaveByPolicy ==
    /\ FinalPersistAfterShutdown
    /\ finalPersists <= 1
    /\ finalPersists = 1 => FLAGS.save_map_on_shutdown
    /\ pc[Main] = "done" =>
          (finalPersists = 1 <=> FLAGS.save_map_on_shutdown)

\* C12 amended: main issues the persist of the save on exit only after
\* shutdown() has returned, at most once, and if and only if
\* save_map_on_shutdown is true and the resolved save path is not empty.
C12_FinalSaveByPolicyAndFolder ==
    /\ FinalPersistAfterShutdown
    /\ finalPersists <= 1
    /\ finalPersists = 1 => FLAGS.save_map_on_shutdown
    /\ pc[Main] = "done" =>
          (finalPersists = 1 <=>
             (FLAGS.save_map_on_shutdown /\ save_map_folder_ # ""))
C12_Witness ==
    /\ pc[Main] = "done"
    /\ finalPersists = 1
    /\ ret.caller = Main
    /\ FLAGS.save_map_on_shutdown
\* C13: in a run that reached Running, once the data source is exhausted or
\* ros::ok() is false, main eventually leaves the wait loop, shuts down and
\* returns 0.
C13_Termination ==
    (runRet = "true" /\ (exhausted \/ ~rosOk)) ~> (pc[Main] = "done")
C13_Witness ==
    /\ pc[Main] = "done"
    /\ runRet = "true"
    /\ exhausted
    /\ rosOk
Constructed == pc[Main] # "construct"
Overridden(n) == IF param[n].set THEN param[n].val ELSE cmdline[n]

\* C14 as stated: after construction every setting of the configuration
\* surface has the value of the override source when it holds one, and the
\* command-line or default value otherwise.
C14_OverridePriority ==
    Constructed => \A n \in ConfigSurface : FLAGS[n] = Overridden(n)

\* C14 amended: this holds of the seven settings the constructor reads from
\* the override source; the external IMU path and the persistence of
\* auxiliary resources keep the command-line or default value.
C14_OverridePriorityOfReadParams ==
    Constructed
    => /\ \A n \in ParamNames : FLAGS[n] = Overridden(n)
       /\ \A n \in ConfigSurface \ ParamNames : FLAGS[n] = cmdline[n]
C14_Witness ==
    /\ Constructed
    /\ param["save_map_folder"] = Override("/ros")
    /\ cmdline.save_map_folder = "m"
    /\ FLAGS.save_map_folder = "/ros"
    /\ ~param["overwrite_existing_map"].set
    /\ FLAGS.overwrite_existing_map
    /\ param["external_imu_parameters_rovio"].set
LeftWaitLoop == pc[Main] \in {"shutdown", "node_shutdown", "flow_shutdown",
                              "flow_wait", "final_check", "saveMap",
                              "persist", "done"}

\* C15: main has left the wait loop (and calls shutdown()) only if the
\* exhaustion flag is set or ros::ok() is false.
C15_ShutdownOnlyOnExit == LeftWaitLoop => (exhausted \/ ~rosOk)
C15_Witness ==
    /\ pc[Main] = "shutdown"
    /\ exhausted
    /\ rosOk

\* C16: no step of the controller or of main (any step that moves a thread
\* or changes a member of RovioliApp) writes the exhaustion flag, and a set
\* flag stays set.
C16_ExitSignalOnlyObserved ==
    [][/\ exhausted => exhausted'
       /\ (pc' # pc \/ ctlVars' # ctlVars) => exhausted' = exhausted]_vars
C16_Witness ==
    /\ pc[Main] = "done"
    /\ exhausted
    /\ ret.caller = Main

MapLoadDone == pc[Main] \notin {"construct", "init_map"}

\* C17: with an empty map folder init() loads nothing; with a map folder, a
\* summary map that loads, or a full map that loads and yields landmarks,
\* lets init() go on with a localization map; a full map that does not load
\* or yields no landmark aborts before the engine is constructed.
C17_MapLoadFallback ==
    /\ (MapLoadDone /\ FLAGS.vio_localization_map_folder = "")
          => (mapLoad = "none" /\ localization_map_ = "null")
    /\ (MapLoadDone /\ FLAGS.vio_localization_map_folder # "")
          => mapLoad # "none"
    /\ mapLoad \in {"summary", "full"} => localization_map_ = "loaded"
    /\ mapLoad \in {"full_empty", "fail"}
          => /\ pc[Main] = "aborted"
             /\ initRet = "none"
             /\ ~initialized_
             /\ rovio_localization_node_ = "null"
C17_Witness ==
    /\ mapLoad = "full"
    /\ initRet = "true"
    /\ rovio_localization_node_ = "Running"

\* the lifecycle state of the controller
Lifecycle ==
    IF pc[Main] = "done" THEN 4
    ELSE IF pc[Main] \in {"node_shutdown", "flow_shutdown", "flow_wait",
                          "final_check", "saveMap", "persist"} THEN 3
    ELSE IF rovio_localization_node_ = "Running" THEN 2
    ELSE IF initialized_ THEN 1
    ELSE 0

\* the steps of the engine: constructed, started, stopped
EngineSteps == {<<"null", "Unstarted">>, <<"Unstarted", "Running">>,
                <<"Running", "Stopped">>}

\* C18: the controller only moves forward through its lifecycle, the engine
\* only from Unstarted to Running to Stopped (so start and stop happen at
\* most once and stop never before start), and the engine stop is called
\* only on the running engine.
C18_MonotoneLifecycle ==
    [][/\ Lifecycle' >= Lifecycle
       /\ rovio_localization_node_' # rovio_localization_node_
             => <<rovio_localization_node_, rovio_localization_node_'>>
                   \in EngineSteps
       /\ pc'[Main] = "node_shutdown" => rovio_localization_node_ = "Running"
      ]_vars
C18_Witness ==
    /\ pc[Main] = "done"
    /\ rovio_localization_node_ = "Stopped"
    /\ calls = MaxCalls

\* a thread is at a call through rovio_localization_node_
AtEngineCall(self) ==
    \/ pc[self] \in {"run_node", "shutdown", "node_shutdown", "persist"}
    \/ pc[self] = "saveMap" /\ save_map_folder_ # ""

\* C19: whenever a thread is at a call through the engine handle (start in
\* run(), the persist in saveMap(), stop in shutdown()), init() has
\* constructed the engine.
C19_EngineExistsWhenUsed ==
    \A self \in Procs :
        AtEngineCall(self) => rovio_localization_node_ # "null"
C19_Witness ==
    /\ \E t \in Spinners : pc[t] = "saveMap" /\ save_map_folder_ # ""
    /\ pc[Main] = "run_node"
    /\ rovio_localization_node_ = "Unstarted"
====
